---- MODULE Spec2Model ----
(***************************************************************************)
(* ResourceStore of internal/resourcestore/resourcestore.go: a registry of *)
(* name -> *Resource guarded by one mutex, a background reaper goroutine   *)
(* (cleanupStaleResources) and capacity-one watcher channels.              *)
(*                                                                         *)
(* Every critical section (Lock .. Unlock) is one action, except Put,      *)
(* whose channel send `w <- struct{}{}` can park the goroutine while it    *)
(* holds the mutex: that is the only place where `locker` stays set        *)
(* between two steps.                                                      *)
(***************************************************************************)
EXTENDS Integers, Sequences, FiniteSets, TLC

\* ----------------------------------------------------------------- bounds
\* Number of Put and WatcherForResource calls of a run, taken together. The
\* k-th Put call supplies resource handle k and cleaner k (or nil), the k-th
\* WatcherForResource call allocates channel k.
MaxCalls == 4

\* The resource names the callers use.
Names == {"a", "b"}

\* ------------------------------------------------------------ the values
\* nil of the interface IdentifiableCreatable, and of *ResourceCleaner.
NoResource == 0
NoCleaner == 0
\* The handles Put call k can pass: a live resource / cleaner, or nil.
Handles == 1..MaxCalls
Channels == 1..MaxCalls

\* make(chan struct{}, 1)
ChanCap == 1

\* IdentifiableCreatable.ID() of handle h: a non-empty string, one per handle.
ID(h) == "id-" \o ToString(h)

\* A zero value whose stale flag is set.
ZeroResourceStale == [resource |-> NoResource, cleaner |-> NoCleaner,
                      watchers |-> << >>, stale |-> TRUE, name |-> ""]

\* &Resource{}: the zero value Put stores for a new name.
ZeroResource == [resource |-> NoResource, cleaner |-> NoCleaner,
                 watchers |-> << >>, stale |-> FALSE, name |-> ""]

VARIABLES
    resources,        \* rc.resources: a function from the names present to Resource
    closed,           \* rc.closed
    closeCount,       \* how many times close(rc.closeChan) has run
    locker,           \* who holds rc.Mutex between two steps: "none" or "Put"
    putting,          \* the Put parked on a send: [name, idx], or NoPut
    buf,              \* buf[c]: the number of notifications buffered in channel c
    nwatchers,        \* channels allocated so far
    nputs,            \* Put calls so far
    reaperPC,         \* where cleanupStaleResources is
    resourcesToReap,  \* its local resourcesToReap (what remains to clean up)
    panicked,         \* the process died of a nil dereference
    \* history (observations, never read by the operations)
    sent,             \* sent[c]: sends completed on channel c
    covered,          \* channels that were attached when a Put returned nil
    accepted,         \* handles stored by a Put that returned nil
    created,          \* created[h]: SetCreated() calls on handle h
    returned,         \* returned[h]: Get calls that returned ID(h)
    cleaned,          \* cleaned[h]: Cleanup() calls on cleaner h
    ghostCleanup      \* Cleanup() was invoked for an entry with no resource

vars == << resources, closed, closeCount, locker, putting, buf, nwatchers, nputs,
           reaperPC, resourcesToReap, panicked, sent, covered, accepted,
           created, returned, cleaned, ghostCleanup >>

hist == << sent, covered, accepted, created, returned, cleaned, ghostCleanup >>

NoPut == [name |-> "", idx |-> 0]
\* What Put returns: nil, or the error "failed to add entry ... entry already
\* exists"; and the string Get returns when it finds nothing.
PutOk == "nil"
PutDuplicate == "entry already exists"
NotFound == ""

Range(s) == { s[i] : i \in 1..Len(s) }

\* ---------------------------------------------------------------- helpers
\* wasPut that takes every entry of the map for a resource.
wasPutAlways(r) == TRUE

\* func (r *Resource) wasPut() bool, for r != nil
wasPut(r) == r.resource # NoResource

\* r, ok := rc.resources[name]
Has(name) == name \in DOMAIN resources

\* rc.resources[name] = r
MapSet(m, name, r) == [n \in (DOMAIN m) \cup {name} |-> IF n = name THEN r ELSE m[n]]

\* delete(rc.resources, name)
MapDelete(m, name) == [n \in (DOMAIN m) \ {name} |-> m[n]]

\* Every call that can run needs the mutex free and a live process.
CanLock == locker = "none" /\ ~panicked

\* NewWithTimeout: an empty map, an open closeChan, the reaper started.
Init ==
    /\ resources = [n \in {} |-> ZeroResource]
    /\ closed = FALSE
    /\ closeCount = 0
    /\ locker = "none"
    /\ putting = NoPut
    /\ buf = [c \in Channels |-> 0]
    /\ nwatchers = 0
    /\ nputs = 0
    /\ reaperPC = "select"
    /\ resourcesToReap = << >>
    /\ panicked = FALSE
    /\ sent = [c \in Channels |-> 0]
    /\ covered = {}
    /\ accepted = {}
    /\ created = [h \in Handles |-> 0]
    /\ returned = [h \in Handles |-> 0]
    /\ cleaned = [h \in Handles |-> 0]
    /\ ghostCleanup = FALSE

\* ------------------------------------------------------------------- Put
\* Duplicate without the test of line 159: every Put stores.
DuplicateNever(ok, r) == FALSE

\* Line 159: the test that rejects a second Put of a name.
Duplicate(ok, r) == ok /\ wasPut(r)

\* Targets of a loop that stops after its first send.
TargetsFirstOnly(ws) == IF ws = << >> THEN ws ELSE << ws[1] >>

\* Line 168: the watchers the loop `for _, w := range r.watchers` sends to.
Targets(ws) == ws

\* The first index >= from of ws whose channel is full (the send there parks
\* the goroutine), or Len(ws) + 1 when the loop runs to its end.
FirstFull(ws, from) ==
    LET full == { i \in from..Len(ws) : buf[ws[i]] >= ChanCap }
    IN  IF full = {} THEN Len(ws) + 1
        ELSE CHOOSE i \in full : \A j \in full : i <= j

\* Lines 168-171, entered or resumed at index `from`: send
\* to each watcher in turn; a full channel parks Put with the mutex held,
\* otherwise Put returns nil and the deferred Unlock runs.
SendLoop(name, r, from) ==
    LET ws   == Targets(r.watchers)
        k    == FirstFull(ws, from)
        done == { ws[i] : i \in from..(k - 1) }
    IN  /\ buf' = [c \in Channels |-> IF c \in done THEN buf[c] + 1 ELSE buf[c]]
        /\ sent' = [c \in Channels |-> IF c \in done THEN sent[c] + 1 ELSE sent[c]]
        /\ IF k > Len(ws)
           THEN /\ locker' = "none"
                /\ putting' = NoPut
                /\ covered' = covered \cup Range(r.watchers)
                /\ accepted' = IF wasPut(r) THEN accepted \cup {r.resource}
                                           ELSE accepted
           ELSE /\ locker' = "Put"
                /\ putting' = [name |-> name, idx |-> k]
                /\ UNCHANGED << covered, accepted >>

\* The error Put(name, ...) returns in the current state (lines 152-161, 171).
PutResult(name) ==
    IF Duplicate(Has(name), IF Has(name) THEN resources[name] ELSE ZeroResource)
    THEN PutDuplicate ELSE PutOk

\* func (rc *ResourceStore) Put(name, resource, cleaner) error
Put(name, resource, cleaner) ==
    /\ CanLock
    /\ nputs + nwatchers < MaxCalls
    /\ nputs' = nputs + 1
    /\ LET ok == Has(name)
           r  == IF ok THEN resources[name] ELSE ZeroResource
       IN  IF PutResult(name) = PutDuplicate
           THEN \* `if !ok` (lines 154-157) is false here: nothing was stored
                /\ UNCHANGED << resources, locker, putting, buf >>
                /\ UNCHANGED << sent, covered, accepted >>
           ELSE LET r1 == [r EXCEPT !.resource = resource, !.cleaner = cleaner,
                                    !.name = name]
                IN  /\ resources' = MapSet(resources, name, r1)
                    /\ SendLoop(name, r1, 1)
    /\ UNCHANGED << closed, closeCount, nwatchers, reaperPC, resourcesToReap, panicked >>
    /\ UNCHANGED << created, returned, cleaned, ghostCleanup >>

\* The parked send of Put completes once a waiter has emptied the channel, and
\* the loop goes on from there.
PutResume ==
    /\ ~panicked
    /\ locker = "Put"
    /\ buf[Targets(resources[putting.name].watchers)[putting.idx]] < ChanCap
    /\ SendLoop(putting.name, resources[putting.name], putting.idx)
    /\ UNCHANGED << resources, nputs >>
    /\ UNCHANGED << closed, closeCount, nwatchers, reaperPC, resourcesToReap, panicked >>
    /\ UNCHANGED << created, returned, cleaned, ghostCleanup >>

\* ------------------------------------------------------------------- Get
\* AfterGet without the delete of line 139.
AfterGetKeep(m, name) == m

\* Line 139: what Get leaves in the map once it has found the resource.
AfterGet(m, name) == MapDelete(m, name)

\* The string Get(name) returns in the current state (lines 130-141).
GetResult(name) ==
    IF ~Has(name) THEN NotFound
    ELSE IF ~wasPut(resources[name]) THEN NotFound
    ELSE ID(resources[name].resource)

\* func (rc *ResourceStore) Get(name string) string
Get(name) ==
    /\ CanLock
    /\ IF ~Has(name)
       THEN UNCHANGED << resources, created, returned >>
       ELSE IF ~wasPut(resources[name])
       THEN UNCHANGED << resources, created, returned >>
       ELSE LET h == resources[name].resource
            IN  /\ resources' = AfterGet(resources, name)
                /\ created' = [created EXCEPT ![h] = @ + 1]
                /\ returned' = [returned EXCEPT ![h] = IF GetResult(name) = ID(h)
                                                       THEN @ + 1 ELSE @]
    /\ UNCHANGED << closed, closeCount, locker, putting, buf, nwatchers, nputs,
                    reaperPC, resourcesToReap, panicked >>
    /\ UNCHANGED << sent, covered, accepted, cleaned, ghostCleanup >>

\* ---------------------------------------------------- WatcherForResource
\* AddWatcher that drops the watchers already attached.
AddWatcherOnly(ws, watcher) == << watcher >>

\* Line 193: r.watchers = append(r.watchers, watcher)
AddWatcher(ws, watcher) == Append(ws, watcher)

\* func (rc *ResourceStore) WatcherForResource(name string) chan struct{}
WatcherForResource(name) ==
    /\ CanLock
    /\ nputs + nwatchers < MaxCalls
    /\ LET watcher == nwatchers + 1
       IN  /\ nwatchers' = watcher
           /\ IF ~Has(name)
              THEN resources' = MapSet(resources, name,
                                       [ZeroResource EXCEPT !.watchers = << watcher >>,
                                                            !.name = name])
              ELSE resources' = [resources EXCEPT
                                    ![name].watchers = AddWatcher(@, watcher)]
    /\ UNCHANGED << closed, closeCount, locker, putting, buf, nputs, reaperPC,
                    resourcesToReap, panicked >>
    /\ UNCHANGED hist

\* A waiter reads the notification from its channel: `<-watcher`, outside the store.
Receive(c) ==
    /\ ~panicked
    /\ c <= nwatchers
    /\ buf[c] > 0
    /\ buf' = [buf EXCEPT ![c] = @ - 1]
    /\ UNCHANGED << resources, closed, closeCount, locker, putting, nwatchers, nputs,
                    reaperPC, resourcesToReap, panicked >>
    /\ UNCHANGED hist

\* ----------------------------------------------------------------- Close
\* Close without the test of line 74: every call closes closeChan.
AlreadyClosedNever(c) == FALSE

\* Line 74: `if rc.closed { return }`.
AlreadyClosed(c) == c

\* func (rc *ResourceStore) Close(). A call on a closed store changes nothing:
\* it is a step that leaves every variable as it was.
Close ==
    /\ CanLock
    /\ IF AlreadyClosed(closed)
       THEN UNCHANGED << closed, closeCount >>
       ELSE /\ closeCount' = closeCount + 1
            /\ closed' = TRUE
    /\ UNCHANGED << resources, locker, putting, buf, nwatchers, nputs, reaperPC,
                    resourcesToReap, panicked >>
    /\ UNCHANGED hist

\* ------------------------------------------------- cleanupStaleResources
\* Skipped without the test of line 103: a pass visits placeholders too.
SkippedNever(r) == FALSE

\* Line 103: the entries a pass leaves alone.
Skipped(r) == ~wasPut(r)

\* Reaped with line 110 run before line 106: marked and removed in one visit.
ReapedAtOnce(r) == TRUE

\* Line 106: the entries a pass removes from the map and queues for cleanup.
Reaped(r) == r.stale

\* Remaining without the delete of line 108.
RemainingAll(names, reap) == names

\* Line 108: the names a pass leaves in the map.
Remaining(names, reap) == names \ reap

\* Every order in which `range rc.resources` can have appended the set S of
\* names to resourcesToReap (Go's map iteration order is unspecified).
Orders(S) ==
    { q \in [1..Cardinality(S) -> S] : \A i, j \in DOMAIN q : i # j => q[i] # q[j] }

\* `case <-time.After(rc.timeout):` is taken. The runtime orders neither the
\* timer's expiry nor the close of closeChan before the select polls them, so
\* this case can win whether or not the store is closed.
ReaperWake ==
    /\ ~panicked
    /\ reaperPC = "select"
    /\ reaperPC' = "lock"
    /\ UNCHANGED << resources, closed, closeCount, locker, putting, buf, nwatchers,
                    nputs, resourcesToReap, panicked >>
    /\ UNCHANGED hist

\* `case <-rc.closeChan: return`
ReaperExit ==
    /\ ~panicked
    /\ reaperPC = "select"
    /\ closeCount > 0
    /\ reaperPC' = "done"
    /\ UNCHANGED << resources, closed, closeCount, locker, putting, buf, nwatchers,
                    nputs, resourcesToReap, panicked >>
    /\ UNCHANGED hist

\* Lines 94-113: one pass over the map under the mutex.
ReaperPass ==
    /\ CanLock
    /\ reaperPC = "lock"
    /\ LET visited == { n \in DOMAIN resources : ~Skipped(resources[n]) }
           reap    == { n \in visited : Reaped(resources[n]) }
           marked  == [n \in DOMAIN resources |->
                          IF n \in visited THEN [resources[n] EXCEPT !.stale = TRUE]
                          ELSE resources[n]]
       IN  /\ resources' = [n \in Remaining(DOMAIN resources, reap) |-> marked[n]]
           /\ \E q \in Orders(reap) :
                 resourcesToReap' = [i \in 1..Len(q) |-> marked[q[i]]]
           /\ reaperPC' = IF reap = {} THEN "select" ELSE "cleanup"
    /\ UNCHANGED << closed, closeCount, locker, putting, buf, nwatchers, nputs,
                    panicked >>
    /\ UNCHANGED hist

\* Lines 115-117, one iteration: r.cleaner.Cleanup() is invoked on the next
\* reaped entry, with the mutex released. Through a nil cleaner the call
\* dereferences nil (the "segfault in the Cleanup() step" of lines 101-102) and
\* the process dies.
ReaperCleanup ==
    /\ ~panicked
    /\ reaperPC = "cleanup"
    /\ LET r == Head(resourcesToReap)
       IN  /\ ghostCleanup' = (ghostCleanup \/ r.resource = NoResource)
           /\ IF r.cleaner = NoCleaner
              THEN /\ panicked' = TRUE
                   /\ UNCHANGED << cleaned, reaperPC >>
              ELSE /\ cleaned' = [cleaned EXCEPT ![r.cleaner] = @ + 1]
                   /\ reaperPC' = "cleaning"
                   /\ UNCHANGED panicked
    /\ UNCHANGED << resources, closed, closeCount, locker, putting, buf, nwatchers,
                    nputs, resourcesToReap >>
    /\ UNCHANGED << sent, covered, accepted, created, returned >>

\* Lines 117-118: Cleanup() returns and the loop goes to the next reaped entry,
\* or back to the select of line 89 after the last one.
ReaperCleanupReturn ==
    /\ ~panicked
    /\ reaperPC = "cleaning"
    /\ resourcesToReap' = Tail(resourcesToReap)
    /\ reaperPC' = IF Len(resourcesToReap) = 1 THEN "select" ELSE "cleanup"
    /\ UNCHANGED << resources, closed, closeCount, locker, putting, buf, nwatchers,
                    nputs, panicked >>
    /\ UNCHANGED hist

\* ------------------------------------------------------ the specification
\* Put call k passes handle k or nil as the resource, and so for the cleaner.
PutCall == \E name \in Names, resource \in {NoResource, nputs + 1},
              cleaner \in {NoCleaner, nputs + 1} : Put(name, resource, cleaner)
GetCall == \E name \in Names : Get(name)
WatcherCall == \E name \in Names : WatcherForResource(name)
ReceiveCall == \E c \in Channels : Receive(c)

Next ==
    \/ PutCall
    \/ PutResume
    \/ GetCall
    \/ WatcherCall
    \/ ReceiveCall
    \/ Close
    \/ ReaperWake
    \/ ReaperExit
    \/ ReaperPass
    \/ ReaperCleanup
    \/ ReaperCleanupReturn

Spec == Init /\ [][Next]_vars

\* The reaper goroutine under a fair scheduler: the timer of line 92 expires,
\* sync.Mutex hands the lock to a waiting goroutine whenever the holders keep
\* releasing it, a select with the closed closeChan ready takes that case
\* sooner or later, and a Cleanup() that was called returns. A Put whose
\* blocked send has become possible completes it. Nothing is assumed of the
\* callers: no waiter has to read its channel, no call has to be made.
FairSpec ==
    /\ Spec
    /\ WF_vars(PutResume)
    /\ WF_vars(ReaperWake)
    /\ SF_vars(ReaperExit)
    /\ SF_vars(ReaperPass)
    /\ WF_vars(ReaperCleanup)
    /\ WF_vars(ReaperCleanupReturn)

TypeOK ==
    /\ DOMAIN resources \subseteq Names
    /\ \A n \in DOMAIN resources :
          /\ resources[n].resource \in {NoResource} \cup Handles
          /\ resources[n].cleaner \in {NoCleaner} \cup Handles
          /\ Range(resources[n].watchers) \subseteq 1..nwatchers
          /\ resources[n].stale \in BOOLEAN
          /\ resources[n].name = n
    /\ \A c \in Channels : buf[c] \in 0..ChanCap
    /\ locker \in {"none", "Put"}
    /\ (locker = "Put") = (putting # NoPut)
    /\ reaperPC \in {"select", "lock", "cleanup", "cleaning", "done"}
    /\ (reaperPC \in {"cleanup", "cleaning"}) = (resourcesToReap # << >>)

\* ============================================================ the claims
\* The resources stored in the registry, and the entries the reaper holds.
Stored == { resources[n].resource : n \in DOMAIN resources }
Queued == Range(resourcesToReap)

\* A Put call on `name`, with any of the arguments PutCall passes.
PutStep(name) ==
    \E resource \in {NoResource, nputs + 1}, cleaner \in {NoCleaner, nputs + 1} :
        Put(name, resource, cleaner)

\* ------------------------------------------------------------------- C1
\* C1 as claimed: once put(name) has succeeded, exactly one of the get(name)
\* calls that follow returns a non-empty ID. The first such call decides it:
\* if it returns "", the entry is gone and every later one returns "" too. So
\* the claim says that, whenever a resource accepted under `name` has not been
\* returned yet and Get(name) can run, Get(name) returns an ID.
AwaitsGet(name) ==
    \/ Has(name) /\ resources[name].resource \in accepted
    \/ /\ ~Has(name)
       /\ \E r \in Queued : r.name = name /\ r.resource \in accepted
                               /\ returned[r.resource] = 0

C1_ExactlyOneGet ==
    \A name \in Names :
        (CanLock /\ AwaitsGet(name)) => GetResult(name) # NotFound

\* C1 as amended: at most one get returns the ID of an accepted resource, and
\* it is the first get(name) that finds the entry still in the registry
\* (which removes it); a get that finds no populated entry returns "".
C1_AtMostOneGet ==
    [][/\ \A h \in Handles :
            /\ returned'[h] <= 1
            /\ returned'[h] = 1 => (h \in accepted /\ h \notin Stored')
       /\ \A name \in Names :
            (nputs' = nputs /\ nwatchers' = nwatchers /\ Get(name)) =>
               IF Has(name) /\ wasPut(resources[name])
               THEN /\ GetResult(name) = ID(resources[name].resource)
                    /\ returned'[resources[name].resource] = 1
               ELSE GetResult(name) = NotFound /\ returned' = returned]_vars

\* A resource was put, one get has returned its ID and the entry is gone.
C1_Witness ==
    \E h \in accepted : returned[h] = 1 /\ h \notin Stored /\ CanLock

\* ------------------------------------------------------------------- C2
\* C2: a Put on a name whose entry is populated returns the duplicate error
\* and changes nothing: the entry keeps its resource, cleaner, stale flag and
\* watchers, no channel receives anything, and Get(name) still returns the ID
\* of the first resource.
C2_DuplicatePut ==
    [][\A name \in Names :
          (nputs' # nputs /\ Has(name) /\ wasPut(resources[name]) /\ PutStep(name)) =>
             /\ PutResult(name) = PutDuplicate
             /\ UNCHANGED << resources, buf, sent, covered, accepted >>
             /\ UNCHANGED << closed, locker, putting, reaperPC, resourcesToReap >>
             /\ GetResult(name)' = ID(resources[name].resource)]_vars

\* Two Put calls were made, both on "a"; the entry holds the first resource,
\* so the second call was the duplicate.
C2_Witness ==
    /\ nputs = 2
    /\ nwatchers = 0
    /\ accepted = {1}
    /\ DOMAIN resources = {"a"}
    /\ resources["a"].resource = 1
    /\ GetResult("a") = ID(1)

\* ------------------------------------------------------------------- C3
\* C3: no watcher channel is sent a second notification.
C3_NotifyOnce ==
    \A c \in Channels : sent[c] <= 1

\* ------------------------------------------------------------------- C4
\* C4: Put never finds a watcher channel full, so it never parks on its send
\* with the store mutex held.
C4_PutNeverBlocks ==
    locker = "none" /\ putting = NoPut

\* ------------------------------------------------------------------- C5
\* The watchers attached to the entry of `name` (none when there is no entry).
WatchersOf(name) == IF Has(name) THEN resources[name].watchers ELSE << >>

\* C5: a Put that returns nil has sent to every watcher attached to the
\* entry before it releases the mutex: when it returns, each notification sent
\* in that step sits in its channel, and while a Put is parked inside its
\* loop no operation that takes the mutex runs (the reaper's cleanup loop takes
\* no mutex and may), so the K sends are one critical section.
C5_WakeOrdering ==
    [][/\ \A name \in Names :
            (nputs' # nputs /\ locker' = "none" /\ PutResult(name) = PutOk
                /\ PutStep(name)) =>
               \A c \in Range(WatchersOf(name)) :
                  sent'[c] = sent[c] + 1 /\ buf'[c] = ChanCap
       /\ (locker = "Put" /\ locker' = "none" /\ PutResume) =>
             \A i \in 1..Len(WatchersOf(putting.name)) :
                LET c == WatchersOf(putting.name)[i]
                IN  IF i < putting.idx THEN sent'[c] >= 1
                    ELSE sent'[c] = sent[c] + 1 /\ buf'[c] = ChanCap
       /\ locker = "Put" =>
             UNCHANGED << resources, nwatchers, nputs, closed, returned >>]_vars

\* Two watchers on one populated entry, both holding their notification.
C5_Witness ==
    \E name \in DOMAIN resources :
        /\ wasPut(resources[name])
        /\ Len(resources[name].watchers) = 2
        /\ \A c \in Range(resources[name].watchers) : sent[c] = 1 /\ buf[c] = ChanCap
        /\ locker = "none"

\* ------------------------------------------------------------------- C6
\* The channels in some watcher list of the registry.
Attached == UNION { Range(resources[n].watchers) : n \in DOMAIN resources }

\* A watcher that joined an entry after the Put that populated it.
Late(c) ==
    /\ locker = "none"
    /\ sent[c] = 0
    /\ \E n \in DOMAIN resources :
          wasPut(resources[n]) /\ c \in Range(resources[n].watchers)

\* C6 as claimed: a watcher for `name` is notified iff put(name) succeeds in
\* the run. So once put(name) has returned nil and its resource sits in the
\* entry, every watcher of that entry has been notified.
C6_NotifiedIffPut ==
    \A n \in DOMAIN resources :
        (locker = "none" /\ wasPut(resources[n])) =>
            \A c \in Range(resources[n].watchers) : sent[c] >= 1

\* C6 as amended: a watcher is notified iff a Put of its name returns nil
\* while the watcher is attached to the entry; a watcher that joins an entry
\* already populated is never notified, and neither is one whose entry has
\* left the registry.
C6_NotifiedIffPutWhileAttached ==
    [][\A c \in Channels :
          /\ (sent'[c] >= 1) <=> (c \in covered')
          /\ Late(c) => sent'[c] = 0
          /\ (c <= nwatchers /\ c \notin Attached) => sent'[c] = sent[c]]_vars

\* One watcher was attached before the Put and is notified, the other joined
\* the populated entry afterwards and is not.
C6_Witness ==
    \E c1, c2 \in Channels :
        /\ sent[c1] = 1 /\ c1 \in covered
        /\ Late(c2) /\ c2 \notin covered

\* ------------------------------------------------------------------- C7
\* C7: a resource accepted by Put has at most one fate: SetCreated() once and
\* its ID returned by one Get, with no Cleanup(); or Cleanup() once by the
\* reaper, with no SetCreated() and no Get returning its ID. Either way it has
\* left the registry for good.
C7_ExclusiveFate ==
    \A h \in Handles :
        /\ created[h] <= 1 /\ cleaned[h] <= 1
        /\ returned[h] = created[h]
        /\ created[h] + cleaned[h] <= 1
        /\ created[h] + cleaned[h] = 1 => (h \in accepted /\ h \notin Stored)
        /\ created[h] = 1 => \A r \in Queued : r.resource # h

\* One resource went to a Get and another to the reaper.
C7_Witness ==
    \E h1, h2 \in accepted :
        /\ created[h1] = 1 /\ returned[h1] = 1 /\ cleaned[h1] = 0
        /\ cleaned[h2] = 1 /\ created[h2] = 0

\* ------------------------------------------------------------------- C8
\* A step of the reaper's pass over the map.
PassStep == reaperPC = "lock" /\ reaperPC' # "lock"

\* C8: the pass that first visits a populated entry only marks it stale; the
\* next pass that visits it removes it and queues it for Cleanup(). An entry
\* starts fresh, only a pass marks it, and only an entry a pass removed while
\* stale is cleaned up: never fresh to deleted in one pass.
C8_ResidencyWindow ==
    [][/\ PassStep =>
             \A n \in DOMAIN resources :
                wasPut(resources[n]) =>
                   IF resources[n].stale
                   THEN /\ n \notin DOMAIN resources'
                        /\ resources[n] \in Range(resourcesToReap')
                   ELSE /\ n \in DOMAIN resources'
                        /\ resources'[n] = [resources[n] EXCEPT !.stale = TRUE]
                        /\ \A r \in Range(resourcesToReap') : r.name # n
       /\ \A n \in DOMAIN resources' :
             /\ (resources'[n].stale /\ ~(Has(n) /\ resources[n].stale)) => PassStep
             /\ ~(Has(n) /\ wasPut(resources[n])) => ~resources'[n].stale
       /\ resourcesToReap' # resourcesToReap =>
             \/ PassStep /\ resourcesToReap = << >>
             \/ reaperPC = "cleaning" /\ resourcesToReap' = Tail(resourcesToReap)
       /\ \A h \in Handles :
             cleaned'[h] # cleaned[h] =>
                /\ reaperPC = "cleanup"
                /\ Head(resourcesToReap).cleaner = h
                /\ Head(resourcesToReap).stale]_vars

\* After two passes: one entry is marked stale and still in the registry,
\* another has been removed and cleaned up.
C8_Witness ==
    /\ \E n \in DOMAIN resources : wasPut(resources[n]) /\ resources[n].stale
    /\ \E h \in accepted : cleaned[h] = 1

\* ------------------------------------------------------------------- C9
\* An entry no Put has touched: no resource, and no watcher of it notified.
Placeholder(r) ==
    ~wasPut(r) /\ \A c \in Range(r.watchers) : sent[c] = 0

\* C9: Cleanup() is never invoked for an entry without a resource, and none
\* is ever queued for it; a pass leaves every entry without a resource as it
\* is (in the registry, same watchers, stale unset); and a Put on a
\* placeholder still returns nil and notifies all its watchers.
C9_NoGhostCleanup ==
    [][/\ ~ghostCleanup'
       /\ \A r \in Range(resourcesToReap') : r.resource # NoResource
       /\ \A n \in DOMAIN resources' : ~wasPut(resources'[n]) => ~resources'[n].stale
       /\ PassStep =>
             \A n \in DOMAIN resources :
                ~wasPut(resources[n]) =>
                   n \in DOMAIN resources' /\ resources'[n] = resources[n]
       /\ \A name \in Names :
             (nputs' # nputs /\ Has(name) /\ Placeholder(resources[name])
                 /\ PutStep(name)) =>
                /\ PutResult(name) = PutOk
                /\ locker' = "none"
                /\ \A c \in Range(resources[name].watchers) :
                      sent'[c] = 1 /\ buf'[c] = ChanCap /\ c \in covered']_vars

\* Channel 1 was handed out for "b" before channel 2 for "a"; Put call 1
\* populated "a" and a pass has marked it stale; "b" is populated by call 2 and
\* still fresh, so that pass found "b" a placeholder and left it alone, and
\* the later Put of "b" succeeded and notified its watcher.
C9_Witness ==
    /\ DOMAIN resources = {"a", "b"}
    /\ resources["a"].resource = 1 /\ resources["a"].stale
    /\ resources["a"].watchers = << 2 >> /\ sent[2] = 1
    /\ resources["b"].resource = 2 /\ ~resources["b"].stale
    /\ resources["b"].watchers = << 1 >> /\ sent[1] = 1
    /\ ~ghostCleanup

\* ------------------------------------------------------------------ C10
\* C10: Get on a name that is absent or maps to an entry without a resource
\* returns "" and changes nothing: the registry, the entry, its watchers and
\* their channels stay as they are and SetCreated() is not called.
C10_GetNotReady ==
    [][\A name \in Names :
          (nputs' = nputs /\ nwatchers' = nwatchers
              /\ (~Has(name) \/ resources[name].resource = NoResource) /\ Get(name)) =>
             /\ GetResult(name) = NotFound
             /\ UNCHANGED << resources, buf, sent, created, returned, cleaned >>
             /\ UNCHANGED << closed, locker, reaperPC, resourcesToReap >>]_vars

\* Get can run, "a" maps to a placeholder with a watcher and "b" is absent: both
\* calls return "".
C10_Witness ==
    /\ CanLock
    /\ Has("a") /\ resources["a"].resource = NoResource
    /\ resources["a"].watchers # << >>
    /\ ~Has("b")
    /\ GetResult("a") = NotFound /\ GetResult("b") = NotFound

\* ------------------------------------------------------------------ C11
\* C11: when the store is never closed and the reaper is scheduled fairly
\* (FairSpec), every resource held by an entry of the registry is eventually
\* returned by a Get or has its Cleanup() invoked by the reaper.
C11_EventuallyCollected ==
    ([]~closed) =>
       \A h \in Handles : (h \in Stored) ~> (returned[h] > 0 \/ cleaned[h] > 0)

\* ------------------------------------------------------------------ C12
\* C12: once Close has run, the reaper removes no entry from the registry and
\* invokes no Cleanup(): from a closed store, no step is a pass that takes an
\* entry out of the map, and no step calls a cleaner.
C12_NoCleanerAfterClose ==
    [][closed =>
          /\ cleaned' = cleaned
          /\ PassStep => DOMAIN resources' = DOMAIN resources]_vars

\* ------------------------------------------------------------------ C13
\* C13: closeChan is closed at most once, and exactly once as soon as the
\* store is closed; the closed flag never goes back to false; a Close call on
\* a closed store changes nothing (no step from a closed store touches closed
\* or the count of close(closeChan) calls).
C13_CloseIdempotent ==
    [][/\ closeCount' <= 1
       /\ closed' = (closeCount' = 1)
       /\ closed => (closed' /\ closeCount' = closeCount)
       /\ (closeCount' # closeCount) => (~closed /\ Close)]_vars

\* The store is closed and the mutex is free: every further Close call runs
\* from such a state, and the reaper has seen the one shutdown signal.
C13_Witness ==
    /\ closed
    /\ closeCount = 1
    /\ CanLock
    /\ reaperPC = "done"
    /\ ENABLED Close

\* ------------------------------------------------------------------ C14
\* C14: every entry of the registry has its resource and its cleaner both
\* unset or both set, and the reaper never calls Cleanup() through an unset
\* cleaner (the call that kills the process).
C14_EntryShape ==
    /\ \A n \in DOMAIN resources :
          (resources[n].resource = NoResource) = (resources[n].cleaner = NoCleaner)
    /\ ~panicked

\* ------------------------------------------------------------------ C15
\* An earlier Put has returned nil on the entry now stored under `name`: it
\* left a resource or a cleaner in it, or a notification in one of its
\* watchers' channels. (A placeholder made by WatcherForResource has none.)
PutBefore(name) ==
    /\ Has(name)
    /\ \/ resources[name].resource # NoResource
       \/ resources[name].cleaner # NoCleaner
       \/ \E c \in Range(resources[name].watchers) : sent[c] > 0

\* C15: while an entry stays in the registry at most one Put on its name
\* returns nil: a Put on an entry an earlier Put has already returned nil on
\* gets the duplicate error.
C15_PopulateOnce ==
    [][\A name \in Names :
          (nputs' # nputs /\ PutBefore(name) /\ PutStep(name)) =>
             PutResult(name) = PutDuplicate]_vars

\* ------------------------------------------------------------------ C16
\* The reaper is in its cleanup loop: before a Cleanup() call or inside one.
InCleanup == reaperPC \in {"cleanup", "cleaning"}

\* C16: the entries the reaper is about to clean up, or is cleaning up, are
\* populated entries that are no longer in the registry (a resource is stored
\* by one Put, so the registry holds it nowhere); the reaper holds no mutex in
\* its cleanup loop, so with the mutex free Get, Put and WatcherForResource can
\* run there; and a Cleanup() call is a step of that loop on the head of the
\* list that touches neither the registry nor the mutex.
C16_CleanupOutsideLock ==
    /\ [](\A r \in Queued : wasPut(r) /\ r.resource \notin Stored)
    /\ []((InCleanup /\ CanLock) =>
             /\ ENABLED GetCall
             /\ (nputs + nwatchers < MaxCalls) =>
                   (ENABLED PutCall /\ ENABLED WatcherCall))
    /\ [][(cleaned' # cleaned) =>
             /\ reaperPC = "cleanup" /\ reaperPC' = "cleaning"
             /\ cleaned' = [cleaned EXCEPT ![Head(resourcesToReap).cleaner] = @ + 1]
             /\ UNCHANGED << resources, locker, putting, resourcesToReap >>]_vars

\* A Cleanup() call is running for the entry removed under a name, and that
\* name has been given a new watcher meanwhile; the mutex is free.
C16_Witness ==
    /\ reaperPC = "cleaning"
    /\ locker = "none"
    /\ LET r == Head(resourcesToReap)
       IN  /\ cleaned[r.cleaner] = 1
           /\ Has(r.name)
           /\ resources[r.name].resource = NoResource
           /\ resources[r.name].watchers # << >>

\* ------------------------------------------------------------------ C17
\* C17: once the store is closed the reaper goroutine eventually returns (or
\* the process has died), under FairSpec; and it never returns while the
\* store is not closed.
C17_ReaperShutdown ==
    /\ closed ~> (reaperPC = "done" \/ panicked)
    /\ [](reaperPC = "done" => closed)

\* ------------------------------------------------------------------ C18
\* Every channel attached to some entry, as a list with repetitions.
RECURSIVE AllWatchers(_)
AllWatchers(names) ==
    IF names = {} THEN << >>
    ELSE LET n == CHOOSE x \in names : TRUE
         IN  resources[n].watchers \o AllWatchers(names \ {n})

\* C18: WatcherForResource(name) hands out a channel that is new (in no
\* watcher list) and empty; for an absent name it inserts a placeholder whose
\* only watcher is that channel, otherwise it appends the channel to the
\* entry's list and leaves the entry's resource, cleaner, stale flag and name
\* alone; every other entry stays as it is. So no channel is ever in two
\* lists, or twice in one.
C18_WatcherForFrame ==
    /\ [][(nwatchers' # nwatchers) =>
             \E name \in Names :
                LET watcher == nwatchers'
                IN  /\ watcher = nwatchers + 1
                    /\ buf[watcher] = 0 /\ sent[watcher] = 0
                    /\ buf'[watcher] = 0
                    /\ watcher \notin Attached
                    /\ DOMAIN resources' = DOMAIN resources \cup {name}
                    /\ IF Has(name)
                       THEN resources'[name] =
                               [resources[name] EXCEPT
                                   !.watchers = resources[name].watchers \o << watcher >>]
                       ELSE resources'[name] =
                               [resource |-> NoResource, cleaner |-> NoCleaner,
                                watchers |-> << watcher >>, stale |-> FALSE,
                                name |-> name]
                    /\ \A n \in DOMAIN resources \ {name} : resources'[n] = resources[n]]_vars
    /\ [](\A i, j \in 1..Len(AllWatchers(DOMAIN resources)) :
             i # j => AllWatchers(DOMAIN resources)[i] # AllWatchers(DOMAIN resources)[j])

\* A populated, stale entry that was given a second watcher after its Put (the
\* first watcher was notified, the second was not), next to another entry.
C18_Witness ==
    \E n \in DOMAIN resources :
        /\ wasPut(resources[n])
        /\ resources[n].stale
        /\ Len(resources[n].watchers) = 2
        /\ sent[resources[n].watchers[1]] = 1
        /\ sent[resources[n].watchers[2]] = 0
        /\ DOMAIN resources # {n}

\* ------------------------------------------------------------------ C19
\* C19: an entry without a resource is never stale, whatever passes it lived
\* through; so a Put that returns nil, on a placeholder or on an absent name,
\* leaves an entry that is not stale, and the next pass only marks it (C8).
C19_PlaceholderFresh ==
    /\ [](\A n \in DOMAIN resources : ~wasPut(resources[n]) => ~resources[n].stale)
    /\ [][\A name \in Names :
             (nputs' # nputs /\ PutResult(name) = PutOk /\ PutStep(name)) =>
                /\ ~resources'[name].stale
                /\ Has(name) => resources'[name].watchers = resources[name].watchers]_vars

\* The placeholder of "b" (watcher 1) is older than the Put of resource 1,
\* which has since been marked, removed and cleaned up by two passes; the Put
\* of resource 2 then populated the placeholder, and the entry is fresh.
C19_Witness ==
    /\ cleaned[1] = 1
    /\ sent[2] = 1
    /\ Has("b")
    /\ resources["b"].resource = 2
    /\ resources["b"].watchers = << 1 >>
    /\ sent[1] = 1
    /\ ~resources["b"].stale

\* ------------------------------------------------------------------ C20
\* C20: a name whose entry has left the registry is free again. A Get that
\* returns an ID and a pass that reaps an entry leave the name absent; a Put
\* on an absent name can run whenever the mutex is free, whatever the reaper
\* still holds in its cleanup list, returns nil and creates an entry with the
\* given resource and cleaner, no watchers and stale unset; and a Get of a
\* name populated again returns the new resource's ID, not the ID of the
\* resource the reaper is still cleaning up.
C20_NameReuse ==
    /\ [](\A name \in Names :
             (~Has(name) /\ CanLock /\ nputs + nwatchers < MaxCalls) =>
                (ENABLED PutStep(name) /\ PutResult(name) = PutOk))
    /\ [](\A r \in Queued : \A name \in Names :
             (r.name = name /\ Has(name) /\ wasPut(resources[name])) =>
                /\ GetResult(name) = ID(resources[name].resource)
                /\ GetResult(name) # ID(r.resource))
    /\ [][/\ \A name \in Names :
               (nputs' # nputs /\ ~Has(name) /\ PutStep(name)) =>
                  /\ Has(name)'
                  /\ resources'[name].watchers = << >>
                  /\ ~resources'[name].stale
                  /\ resources'[name].name = name
                  /\ resources'[name].resource \in {NoResource, nputs'}
                  /\ resources'[name].cleaner \in {NoCleaner, nputs'}
          /\ \A name \in DOMAIN resources :
               \/ name \in DOMAIN resources'
               \/ /\ PassStep
                  /\ resources[name] \in Range(resourcesToReap')
               \/ /\ returned'[resources[name].resource] =
                        returned[resources[name].resource] + 1
                  /\ GetResult(name) = ID(resources[name].resource)]_vars

\* Cleanup() of the resource stored under "a" by the first Put is running,
\* and "a" already holds the resource of the second Put, fresh and without
\* watchers; the mutex is free, so a Get of "a" now returns the new ID.
C20_Witness ==
    /\ reaperPC = "cleaning"
    /\ Head(resourcesToReap).name = "a"
    /\ Head(resourcesToReap).resource = 1
    /\ cleaned[1] = 1
    /\ Has("a")
    /\ resources["a"] = [resource |-> 2, cleaner |-> 2, watchers |-> << >>,
                         stale |-> FALSE, name |-> "a"]
    /\ CanLock
    /\ GetResult("a") = ID(2)

====
